---- MODULE Spec2Model ----
(***************************************************************************)
(* The caching geocode-enrichment stage of icewatch                        *)
(* (src/src/icewatch/geocode_facilities.py): build_address and the         *)
(* per-record loop of main(), with the cache file, the output file and    *)
(* the geocoding provider as the environment.                              *)
(***************************************************************************)
EXTENDS Integers, Sequences, FiniteSets, TLC

VARIABLES
    inputFile,   \* the "facilities" array of the input JSON document
    cacheFile,   \* the cache file on disk: address key -> JSON value
    cacheFile0,  \* the cache file as it was when the current run started
    outputFile,  \* what the current run wrote to the output path
    pc,          \* position of main(): start, loop, save_cache, done, aborted
    facilities,  \* data["facilities"]: the records being enriched in memory
    cache,       \* the in-memory cache dict
    updated,     \* the local flag `updated`
    i,           \* 1-based index of the record the loop handles next
    log,         \* the run's provider calls, sleeps and file operations, in order
    run,         \* number of the current run of the stage
    prev,        \* what the previous run left behind
    facility,    \* argument of a stand-alone build_address call
    address,     \* its result
    cacheStatus, \* the cache path: missing, parseable or corrupt
    inputMeta,   \* the "metadata" object of the input JSON document
    metadata,    \* data["metadata"] in memory
    provider,    \* the provider geocode_address is bound to
    dataDir,     \* the files of the data directory, in the order glob yields them
    latest,      \* result of a get_latest_file call
    other,       \* a second record given to build_address, and its key
    download,    \* a download_ice_detention_stats call: arguments and URL used
    marker       \* a facility_to_js call: the record and the text emitted

vars == <<inputFile, cacheFile, cacheFile0, outputFile, pc, facilities, cache,
          updated, i, log, run, prev, facility, address, cacheStatus,
          inputMeta, metadata, provider, dataDir, latest, other, download,
          marker>>

----------------------------------------------------------------------------
(* Bounds *)

MaxFacilities == 2

MaxRuns == 2

MaxCoord == 2

MaxStrLen == 2

MaxFiles == 3

----------------------------------------------------------------------------
(* Strings are sequences of characters; JSON field values are tagged.      *)

Chars == {"a", "b", " "}

RECURSIVE StringsOfLen(_)
StringsOfLen(n) ==
    IF n = 0 THEN {<<>>}
    ELSE {<<c>> \o s : c \in Chars, s \in StringsOfLen(n - 1)}

Strings == UNION {StringsOfLen(n) : n \in 0..MaxStrLen}

Missing == [t |-> "missing", s |-> <<>>]

JsonNull == [t |-> "null", s |-> <<>>]

JsonStr(s) == [t |-> "str", s |-> s]

FieldValues == {Missing, JsonNull} \cup {JsonStr(s) : s \in Strings}

AddressFields == {"Address", "City", "State", "Zip"}

AllFacilities == [AddressFields -> FieldValues]

\* dict.get(field, "")
Get(f, field) == IF f[field].t = "missing" THEN JsonStr(<<>>) ELSE f[field]

\* str(p): the text of a string is itself, the text of None is "None"
PyStr(p) == IF p.t = "null" THEN <<"N", "o", "n", "e">> ELSE p.s

\* truth value of p: None and "" are false
Truthy(p) == p.t = "str" /\ p.s # <<>>

IsSpace(c) == c = " "

RECURSIVE LStrip(_)
LStrip(s) == IF s # <<>> /\ IsSpace(Head(s)) THEN LStrip(Tail(s)) ELSE s

RECURSIVE RStrip(_)
RStrip(s) ==
    IF s # <<>> /\ IsSpace(s[Len(s)]) THEN RStrip(SubSeq(s, 1, Len(s) - 1)) ELSE s

\* str.strip()
Strip(s) == RStrip(LStrip(s))

RECURSIVE Join(_, _)
Join(sep, ss) ==
    IF ss = <<>> THEN <<>>
    ELSE IF Len(ss) = 1 THEN ss[1]
    ELSE ss[1] \o sep \o Join(sep, Tail(ss))

\* the list `parts`; the Zip entry is wrapped in str() before the filter
Parts(f) ==
    << Get(f, "Address"), Get(f, "City"), Get(f, "State"),
       JsonStr(PyStr(Get(f, "Zip"))) >>

Keep(p) == Truthy(p) /\ Strip(PyStr(p)) # <<>>

\* the kept parts are joined as they are
build_address_Untrimmed(f) ==
    LET kept == SelectSeq(Parts(f), Keep)
    IN  Join(<<",", " ">>, [k \in 1..Len(kept) |-> PyStr(kept[k])])

build_address(f) ==
    LET kept == SelectSeq(Parts(f), Keep)
    IN  Join(<<",", " ">>, [k \in 1..Len(kept) |-> Strip(PyStr(kept[k]))])

\* a string value with white space added around it; other values as they are
Pad(v, side) ==
    IF v.t # "str" \/ side = "none" THEN v
    ELSE IF side = "left" THEN JsonStr(<<" ">> \o v.s)
    ELSE JsonStr(v.s \o <<" ">>)

Sides == {"none", "left", "right"}

\* fields of a record that build_address does not read
OtherFields ==
    { <<>>,
      ("Name" :> JsonStr(<<"b">>)) @@ ("latitude" :> JsonNull) }

\* records for the comparison of two keys: any Address and Zip, City and
\* State absent or one word
PairFacilities ==
    {f \in AllFacilities :
        /\ f["City"] \in {Missing, JsonStr(<<"b">>)}
        /\ f["State"] \in {Missing, JsonStr(<<"a">>)}}

----------------------------------------------------------------------------
(* JSON values of the cache and results of the provider *)

NoneResult == [t |-> "null", lat |-> 0, lon |-> 0]

Coords(x, y) == [t |-> "obj", lat |-> x, lon |-> y]

\* the coordinate pairs the provider can return
Coordinates == {Coords(n, n + MaxCoord) : n \in 1..MaxCoord}

\* parseable cache values that are neither null nor a coordinate pair:
\* an empty object (false) and a string (true, but has no "lat")
EmptyObj == [t |-> "emptyobj", lat |-> 0, lon |-> 0]

StrValue == [t |-> "strvalue", lat |-> 0, lon |-> 0]

CleanValues == {NoneResult} \cup Coordinates

JsonValues == CleanValues \cup {EmptyObj, StrValue}

\* truth value of a result: None and {} are false
ResultTruthy(r) == r.t \in {"obj", "strvalue"}

\* result["lat"] raises on a value that is not a mapping with that key
Subscriptable(r) == r.t = "obj"

----------------------------------------------------------------------------
(* The files the stage starts from *)

Rec(a, c, s, z) == [Address |-> a, City |-> c, State |-> s, Zip |-> z]

\* records of the input file: no address fields at all, only blank ones, two
\* addresses, a second spelling of the first address, and the record the
\* scraper writes for a row without address (every field null)
FacilityPool ==
    { Rec(Missing, Missing, Missing, Missing),
      Rec(JsonStr(<<" ">>), JsonStr(<<>>), Missing, JsonStr(<<" ", " ">>)),
      Rec(JsonStr(<<"a">>), Missing, Missing, Missing),
      Rec(JsonStr(<<" ", "a">>), JsonStr(<<" ">>), JsonNull, JsonStr(<<>>)),
      Rec(Missing, JsonStr(<<"b">>), Missing, Missing),
      Rec(JsonNull, JsonNull, JsonNull, JsonNull) }

FacilityLists == UNION {[1..n -> FacilityPool] : n \in 0..MaxFacilities}

CacheKeys == {<<"a">>, <<"b">>}

CacheFiles(values) == UNION {[D -> values] : D \in SUBSET CacheKeys}

EmptyCache == [k \in {} |-> NoneResult]

Put(c, k, v) == [x \in DOMAIN c \cup {k} |-> IF x = k THEN v ELSE c[x]]

Del(c, k) == [x \in DOMAIN c \ {k} |-> c[x]]

----------------------------------------------------------------------------
(* Values of the latitude/longitude fields of a record *)

Absent == [t |-> "absent", v |-> 0]

Null == [t |-> "null", v |-> 0]

Num(x) == [t |-> "num", v |-> x]

NoMeta == [present |-> FALSE, total_facilities |-> 0]

Meta(n) == [present |-> TRUE, total_facilities |-> n]

NotWritten == [written |-> FALSE, facilities |-> <<>>, metadata |-> NoMeta]

NoAddress == [computed |-> FALSE, val |-> <<>>]

NoOther ==
    [computed |-> FALSE, facility |-> [fld \in AddressFields |-> Missing],
     val |-> <<>>]

\* a file of the data directory: the date in its name, its st_ctime, and
\* whether its name matches the glob pattern
File(d, t, m) == [date |-> d, ctime |-> t, matches |-> m]

\* the built-in URL of download_ice_detention_stats
DefaultUrl == JsonStr(<<"d">>)

NoDownload ==
    [url |-> JsonNull, auto_find_link |-> TRUE, found_url |-> JsonNull,
     used |-> JsonNull, done |-> FALSE]

NoJs == [name |-> <<>>, lat |-> <<>>, lon |-> <<>>]

NoMarker ==
    [fac |-> [Name |-> Missing, latitude |-> Absent, longitude |-> Absent],
     js |-> NoJs, done |-> FALSE]

NoFile == File(0, 0, FALSE)

NoLatest == [status |-> "none", path |-> NoFile]

\* log entries
Event(op, idx, res) == [op |-> op, idx |-> idx, res |-> res]

----------------------------------------------------------------------------
(* The loop body of main(), lines 133-164 *)

\* the cache is never consulted
Cached_NoLookup(c, a) == FALSE

\* line 142: address in cache and cache[address] is not None
Cached(c, a) == a \in DOMAIN c /\ c[a].t # "null"

\* the result is stored whatever it is
Store_Unconditional(c, u, a, result) ==
    [cache |-> Put(c, a, result), updated |-> TRUE]

\* removing a stale entry marks the cache as updated
Store_DirtyOnDelete(c, u, a, result) ==
    IF result.t # "null"
    THEN [cache |-> Put(c, a, result), updated |-> TRUE]
    ELSE IF a \in DOMAIN c
         THEN [cache |-> Del(c, a), updated |-> TRUE]
         ELSE [cache |-> c, updated |-> u]

\* a failed lookup of a new key is remembered as null, a failed lookup of a
\* remembered key removes it, and both count as an update
Store_RemembersFailure(c, u, a, result) ==
    IF result.t # "null"
    THEN [cache |-> Put(c, a, result), updated |-> TRUE]
    ELSE IF a \in DOMAIN c
         THEN [cache |-> Del(c, a), updated |-> TRUE]
         ELSE [cache |-> Put(c, a, result), updated |-> TRUE]

\* a successful result is not put into the cache
Store_Forgets(c, u, a, result) ==
    IF result.t # "null"
    THEN [cache |-> c, updated |-> TRUE]
    ELSE IF a \in DOMAIN c
         THEN [cache |-> Del(c, a), updated |-> u]
         ELSE [cache |-> c, updated |-> u]

\* a failed lookup leaves the cache as it is
Store_KeepsEntry(c, u, a, result) ==
    IF result.t # "null"
    THEN [cache |-> Put(c, a, result), updated |-> TRUE]
    ELSE [cache |-> c, updated |-> u]

\* lines 153-158: what a provider result does to the cache and to `updated`
Store(c, u, a, result) ==
    IF result.t # "null"
    THEN [cache |-> Put(c, a, result), updated |-> TRUE]
    ELSE IF a \in DOMAIN c
         THEN [cache |-> Del(c, a), updated |-> u]
         ELSE [cache |-> c, updated |-> u]

\* the else branch is missing: a false result leaves the record as it was
Enrich_NoElse(rec, result) ==
    IF ResultTruthy(result)
    THEN [rec EXCEPT !.latitude = Num(result.lat), !.longitude = Num(result.lon)]
    ELSE rec

\* only the latitude is taken from a result
Enrich_LatOnly(rec, result) ==
    IF ResultTruthy(result)
    THEN [rec EXCEPT !.latitude = Num(result.lat), !.longitude = Null]
    ELSE [rec EXCEPT !.latitude = Null, !.longitude = Null]

\* lines 159-164: the result is assigned onto the record
Enrich(rec, result) ==
    IF ResultTruthy(result)
    THEN [rec EXCEPT !.latitude = Num(result.lat), !.longitude = Num(result.lon)]
    ELSE [rec EXCEPT !.latitude = Null, !.longitude = Null]

\* lines 147-152: time.sleep follows the call inside the try block, so it
\* runs when geocode_address returned and is skipped when it raised
Sleeps(res) == res # "error"

CallEvents(idx, res) ==
    <<Event("call", idx, res)>> \o
    (IF Sleeps(res) THEN <<Event("sleep", idx, res)>> ELSE <<>>)

----------------------------------------------------------------------------
(* Initial states *)

Idle ==
    /\ cacheFile0 = cacheFile
    /\ outputFile = NotWritten
    /\ pc = "start"
    /\ facilities = <<>>
    /\ cache = EmptyCache
    /\ updated = FALSE
    /\ i = 1
    /\ log = <<>>
    /\ run = 1
    /\ prev = [output |-> NotWritten, cacheFile |-> cacheFile, completed |-> FALSE]
    /\ facility = Rec(Missing, Missing, Missing, Missing)
    /\ address = NoAddress
    /\ metadata = NoMeta
    /\ dataDir = <<>>
    /\ latest = NoLatest
    /\ other = NoOther
    /\ download = NoDownload
    /\ marker = NoMarker

\* the input document: a facilities list, with or without the metadata
\* object the scraper writes
InputDocument ==
    /\ inputFile \in FacilityLists
    /\ inputMeta \in {NoMeta, Meta(Len(inputFile))}

\* the cache path holds a parseable file with the given values, or no file
CachePath(values) ==
    \/ cacheStatus = "parseable" /\ cacheFile \in CacheFiles(values)
    \/ cacheStatus = "missing" /\ cacheFile = EmptyCache

\* a cache file as the stage itself leaves it, possibly with null entries
Init ==
    /\ InputDocument
    /\ CachePath(CleanValues)
    /\ provider = "nominatim"
    /\ Idle

\* any parseable cache file
InitAnyCache ==
    /\ InputDocument
    /\ CachePath(JsonValues)
    /\ provider = "nominatim"
    /\ Idle

\* a stand-alone call of build_address on any record
InitAddress ==
    /\ facility \in AllFacilities
    /\ address = NoAddress
    /\ pc = "build_address"
    /\ inputFile = <<>>
    /\ cacheFile = EmptyCache
    /\ cacheFile0 = EmptyCache
    /\ outputFile = NotWritten
    /\ facilities = <<>>
    /\ cache = EmptyCache
    /\ updated = FALSE
    /\ i = 1
    /\ log = <<>>
    /\ run = 1
    /\ prev = [output |-> NotWritten, cacheFile |-> EmptyCache, completed |-> FALSE]
    /\ cacheStatus = "missing"
    /\ inputMeta = NoMeta
    /\ metadata = NoMeta
    /\ provider = "nominatim"
    /\ dataDir = <<>>
    /\ latest = NoLatest
    /\ other = NoOther
    /\ download = NoDownload
    /\ marker = NoMarker

----------------------------------------------------------------------------
(* Actions *)

envVars == <<provider, inputMeta, dataDir, latest, other, download, marker>>

runVars == <<run, prev, facility, address, envVars>>

\* load_cache opens the cache path without asking whether it exists
Load_NoExistsCheck ==
    /\ pc = "start"
    /\ cacheStatus # "corrupt"
    /\ facilities' = [k \in 1..Len(inputFile) |->
                        [facility |-> inputFile[k], latitude |-> Absent,
                         longitude |-> Absent]]
    /\ cache' = cacheFile
    /\ updated' = FALSE
    /\ i' = 1
    /\ metadata' = inputMeta
    /\ log' = log \o <<Event("load_input", 0, "ok"),
                        Event("load_cache", 0, cacheStatus)>>
    /\ pc' = IF cacheStatus = "missing" THEN "aborted" ELSE "loop"
    /\ UNCHANGED <<inputFile, cacheStatus, cacheFile, cacheFile0, outputFile,
                   runVars>>

\* lines 124-132: load_json, load_cache, updated = False; load_cache returns
\* {} when the cache path does not exist
Load ==
    /\ pc = "start"
    /\ cacheStatus # "corrupt"
    /\ facilities' = [k \in 1..Len(inputFile) |->
                        [facility |-> inputFile[k], latitude |-> Absent,
                         longitude |-> Absent]]
    /\ cache' = IF cacheStatus = "missing" THEN EmptyCache ELSE cacheFile
    /\ updated' = FALSE
    /\ i' = 1
    /\ metadata' = inputMeta
    /\ log' = log \o <<Event("load_input", 0, "ok"),
                        Event("load_cache", 0, cacheStatus)>>
    /\ pc' = "loop"
    /\ UNCHANGED <<inputFile, cacheStatus, cacheFile, cacheFile0, outputFile,
                   runVars>>

\* a corrupt cache file is taken for an empty cache
LoadCorruptCache_AsEmpty ==
    /\ pc = "start"
    /\ cacheStatus = "corrupt"
    /\ facilities' = [k \in 1..Len(inputFile) |->
                        [facility |-> inputFile[k], latitude |-> Absent,
                         longitude |-> Absent]]
    /\ cache' = EmptyCache
    /\ updated' = FALSE
    /\ i' = 1
    /\ metadata' = inputMeta
    /\ log' = log \o <<Event("load_input", 0, "ok"),
                        Event("load_cache", 0, cacheStatus)>>
    /\ pc' = "loop"
    /\ UNCHANGED <<inputFile, cacheStatus, cacheFile, cacheFile0, outputFile,
                   runVars>>

\* lines 124-129 and 37-40: the cache path exists and json.load raises on its
\* content; nothing in load_cache or main catches the exception
LoadCorruptCache ==
    /\ pc = "start"
    /\ cacheStatus = "corrupt"
    /\ facilities' = [k \in 1..Len(inputFile) |->
                        [facility |-> inputFile[k], latitude |-> Absent,
                         longitude |-> Absent]]
    /\ metadata' = inputMeta
    /\ log' = log \o <<Event("load_input", 0, "ok"),
                        Event("load_cache", 0, cacheStatus)>>
    /\ pc' = "aborted"
    /\ UNCHANGED <<inputFile, cacheStatus, cacheFile, cacheFile0, outputFile,
                   cache, updated, i, runVars>>

InLoop == pc = "loop" /\ i <= Len(facilities)

Current == build_address(facilities[i].facility)

\* lines 135-141: empty address, the record is skipped
SkipNoAddress ==
    /\ InLoop
    /\ Current = <<>>
    /\ facilities' = [facilities EXCEPT ![i] = [@ EXCEPT !.latitude = Null,
                                                          !.longitude = Null]]
    /\ i' = i + 1
    /\ UNCHANGED <<inputFile, cacheStatus, metadata, cacheFile, cacheFile0, outputFile, pc, cache,
                   updated, log, runVars>>

\* lines 142-144 and 159-164: the cached value is the result
CacheHit ==
    /\ InLoop
    /\ Current # <<>>
    /\ Cached(cache, Current)
    /\ ResultTruthy(cache[Current]) => Subscriptable(cache[Current])
    /\ facilities' = [facilities EXCEPT ![i] = Enrich(@, cache[Current])]
    /\ i' = i + 1
    /\ UNCHANGED <<inputFile, cacheStatus, metadata, cacheFile, cacheFile0, outputFile, pc, cache,
                   updated, log, runVars>>

\* lines 142-143 and 159-160: a cached value that is true but has no "lat"
\* makes result["lat"] raise, and nothing catches it
CacheHitRaises ==
    /\ InLoop
    /\ Current # <<>>
    /\ Cached(cache, Current)
    /\ ResultTruthy(cache[Current]) /\ ~Subscriptable(cache[Current])
    /\ pc' = "aborted"
    /\ UNCHANGED <<inputFile, cacheStatus, metadata, cacheFile, cacheFile0, outputFile, facilities,
                   cache, updated, i, log, runVars>>

\* the cache file is written after every provider call
Geocoded_WritesThrough(result, res) ==
    /\ InLoop
    /\ Current # <<>>
    /\ ~Cached(cache, Current)
    /\ log' = log \o CallEvents(i, res) \o <<Event("write_cache", 0, "ok")>>
    /\ cache' = Store(cache, updated, Current, result).cache
    /\ cacheFile' = cache'
    /\ updated' = Store(cache, updated, Current, result).updated
    /\ facilities' = [facilities EXCEPT ![i] = Enrich(@, result)]
    /\ i' = i + 1
    /\ UNCHANGED <<inputFile, cacheStatus, metadata, cacheFile0, outputFile,
                   pc, runVars>>

\* lines 145-164 for one answer of the provider: `result` is what the try
\* block leaves in the variable, `res` says how the call ended
Geocoded(result, res) ==
    /\ InLoop
    /\ Current # <<>>
    /\ ~Cached(cache, Current)
    /\ log' = log \o CallEvents(i, res)
    /\ cache' = Store(cache, updated, Current, result).cache
    /\ updated' = Store(cache, updated, Current, result).updated
    /\ facilities' = [facilities EXCEPT ![i] = Enrich(@, result)]
    /\ i' = i + 1
    /\ UNCHANGED <<inputFile, cacheStatus, metadata, cacheFile, cacheFile0, outputFile, pc, runVars>>

\* the provider returns a coordinate pair
GeocodeSuccess == \E c \in Coordinates : Geocoded(c, "ok")

\* the provider returns None (no match)
GeocodeNoResult == Geocoded(NoneResult, "none")

\* the exception of the provider is not caught
GeocodeError_Uncaught ==
    /\ InLoop
    /\ Current # <<>>
    /\ ~Cached(cache, Current)
    /\ log' = log \o <<Event("call", i, "error")>>
    /\ pc' = "aborted"
    /\ UNCHANGED <<inputFile, cacheStatus, metadata, cacheFile, cacheFile0, outputFile, facilities,
                   cache, updated, i, runVars>>

\* the provider raises (timeout, HTTP error, malformed body)
GeocodeError == Geocoded(NoneResult, "error")

\* geocode/__init__.py binds geocode_address to query_mapbox when
\* MAPBOX_ACCESS_TOKEN is set and to the Nominatim function otherwise
Providers == {"mapbox", "nominatim"}

\* the Nominatim request passes timeout=15, the Mapbox request passes none
HasTimeout(p) == p = "nominatim"

\* the server never answers and the request has a timeout: requests raises
\* after it, which main handles like any other error of the provider
GeocodeTimesOut ==
    /\ HasTimeout(provider)
    /\ Geocoded(NoneResult, "error")

\* the server never answers and the request has no timeout: s.get does not
\* return
GeocodeBlocks ==
    /\ InLoop
    /\ Current # <<>>
    /\ ~Cached(cache, Current)
    /\ ~HasTimeout(provider)
    /\ log' = log \o <<Event("call", i, "blocked")>>
    /\ pc' = "blocked"
    /\ UNCHANGED <<inputFile, cacheStatus, metadata, cacheFile, cacheFile0,
                   outputFile, facilities, cache, updated, i, runVars>>

\* only the facility list of the document is written
WriteOutput_FacilitiesOnly ==
    /\ pc = "loop"
    /\ i > Len(facilities)
    /\ outputFile' = [written |-> TRUE, facilities |-> facilities,
                      metadata |-> NoMeta]
    /\ log' = log \o <<Event("write_output", 0, "ok")>>
    /\ pc' = "save_cache"
    /\ UNCHANGED <<inputFile, cacheStatus, metadata, cacheFile, cacheFile0,
                   facilities, cache, updated, i, runVars>>

\* lines 166-167: save_json(data, output_path)
WriteOutput ==
    /\ pc = "loop"
    /\ i > Len(facilities)
    /\ outputFile' = [written |-> TRUE, facilities |-> facilities,
                      metadata |-> metadata]
    /\ log' = log \o <<Event("write_output", 0, "ok")>>
    /\ pc' = "save_cache"
    /\ UNCHANGED <<inputFile, cacheStatus, metadata, cacheFile, cacheFile0, facilities, cache, updated,
                   i, runVars>>

\* the cache is saved before the output file is written, and the write of
\* the output file fails
WriteOutputFails_CacheFirst ==
    /\ pc = "loop"
    /\ i > Len(facilities)
    /\ IF updated
       THEN /\ cacheFile' = cache
            /\ cacheStatus' = "parseable"
            /\ log' = log \o <<Event("write_cache", 0, "ok"),
                                Event("write_output", 0, "error")>>
       ELSE /\ log' = log \o <<Event("write_output", 0, "error")>>
            /\ UNCHANGED <<cacheFile, cacheStatus>>
    /\ pc' = "aborted"
    /\ UNCHANGED <<inputFile, metadata, cacheFile0, outputFile, facilities,
                   cache, updated, i, runVars>>

\* lines 166-167: save_json raises (the path cannot be opened or written);
\* nothing catches it, so main ends before lines 169-173
WriteOutputFails ==
    /\ pc = "loop"
    /\ i > Len(facilities)
    /\ log' = log \o <<Event("write_output", 0, "error")>>
    /\ pc' = "aborted"
    /\ UNCHANGED <<inputFile, cacheStatus, metadata, cacheFile, cacheFile0,
                   outputFile, facilities, cache, updated, i, runVars>>

\* only the entries obtained in this run are written to the cache file
SaveCache_OnlyNew ==
    /\ pc = "save_cache"
    /\ IF updated
       THEN /\ cacheFile' = [K \in {k \in DOMAIN cache :
                                       \E j \in 1..Len(log) :
                                           /\ log[j].op = "call"
                                           /\ log[j].res = "ok"
                                           /\ build_address(inputFile[log[j].idx]) = k}
                                |-> cache[K]]
            /\ cacheStatus' = "parseable"
            /\ log' = log \o <<Event("write_cache", 0, "ok")>>
       ELSE UNCHANGED <<cacheFile, cacheStatus, log>>
    /\ pc' = "done"
    /\ UNCHANGED <<inputFile, metadata, cacheFile0, outputFile, facilities,
                   cache, updated, i, runVars>>

\* the run ends without writing the cache file
SaveCache_NoWrite ==
    /\ pc = "save_cache"
    /\ pc' = "done"
    /\ UNCHANGED <<inputFile, metadata, cacheFile0, outputFile, facilities,
                   cache, updated, i, runVars, cacheFile, cacheStatus, log>>

\* lines 169-173: save_cache(cache, cache_path) if updated
SaveCache ==
    /\ pc = "save_cache"
    /\ IF updated
       THEN /\ cacheFile' = cache
            /\ cacheStatus' = "parseable"
            /\ log' = log \o <<Event("write_cache", 0, "ok")>>
       ELSE UNCHANGED <<cacheFile, cacheStatus, log>>
    /\ pc' = "done"
    /\ UNCHANGED <<inputFile, metadata, cacheFile0, outputFile, facilities, cache, updated,
                   i, runVars>>

\* the stage is run again on the same input file and the same cache path
RunAgain ==
    /\ pc = "done"
    /\ run < MaxRuns
    /\ run' = run + 1
    /\ prev' = [output |-> outputFile, cacheFile |-> cacheFile, completed |-> TRUE]
    /\ cacheFile0' = cacheFile
    /\ outputFile' = NotWritten
    /\ pc' = "start"
    /\ facilities' = <<>>
    /\ cache' = EmptyCache
    /\ updated' = FALSE
    /\ i' = 1
    /\ log' = <<>>
    /\ metadata' = NoMeta
    /\ UNCHANGED <<inputFile, cacheStatus, cacheFile, facility, address, envVars>>

\* a stand-alone call of build_address
BuildAddress ==
    /\ pc = "build_address"
    /\ address' = [computed |-> TRUE, val |-> build_address(facility)]
    /\ pc' = "built"
    /\ UNCHANGED <<inputFile, cacheStatus, metadata, cacheFile, cacheFile0, outputFile, facilities,
                   cache, updated, i, log, run, prev, facility, envVars>>

\* build_address(other): a record whose four address fields differ from
\* those of `facility` by surrounding white space only, with or without
\* further fields
BuildAddressOther ==
    /\ pc = "built"
    /\ \E pad \in [AddressFields -> Sides], extra \in OtherFields :
          LET g == [fld \in AddressFields |-> Pad(facility[fld], pad[fld])]
                       @@ extra
          IN  other' = [computed |-> TRUE, facility |-> g,
                        val |-> build_address(g)]
    /\ pc' = "compared"
    /\ UNCHANGED <<inputFile, cacheStatus, metadata, cacheFile, cacheFile0,
                   outputFile, facilities, cache, updated, i, log, run, prev,
                   facility, address, provider, inputMeta, dataDir, latest,
                   download, marker>>

\* the files a directory listing can hold: a name is its date and whether
\* it matches the pattern; st_ctime is positive
Files == {File(d, t, m) : d \in 1..MaxFiles, t \in 1..MaxFiles, m \in BOOLEAN}

\* no two files of a directory have the same name
DistinctNames(d) == \A a, b \in 1..Len(d) : a # b => d[a].date # d[b].date

NotFound == [found |-> FALSE, file |-> NoFile]

\* lines 55-59: the loop over glob(pattern); `ts` is compared with every
\* st_ctime and never assigned
RECURSIVE Scan(_, _, _)
Scan(files, ts, file_path) ==
    IF files = <<>> THEN file_path
    ELSE LET f == Head(files)
         IN  IF f.matches /\ f.ctime > ts
             THEN Scan(Tail(files), ts, [found |-> TRUE, file |-> f])
             ELSE Scan(Tail(files), ts, file_path)

latestVars ==
    <<inputFile, cacheStatus, metadata, cacheFile, cacheFile0, outputFile,
      facilities, cache, updated, i, log, run, prev, facility, address,
      provider, inputMeta, dataDir, other, download, marker>>

\* line 60 is reached with file_path None and the function returns it
GetLatestFileRaises_ReturnsNone ==
    /\ pc = "get_latest_file"
    /\ ~Scan(dataDir, 0, NotFound).found
    /\ latest' = [status |-> "returned", path |-> NoFile]
    /\ pc' = "returned"
    /\ UNCHANGED latestVars

\* lines 60-61: raise RuntimeError("No geocoded facilites found")
GetLatestFileRaises ==
    /\ pc = "get_latest_file"
    /\ ~Scan(dataDir, 0, NotFound).found
    /\ latest' = [status |-> "raised", path |-> NoFile]
    /\ pc' = "raised"
    /\ UNCHANGED latestVars

\* line 62: return file_path
GetLatestFile ==
    /\ pc = "get_latest_file"
    /\ Scan(dataDir, 0, NotFound).found
    /\ latest' = [status |-> "returned", path |-> Scan(dataDir, 0, NotFound).file]
    /\ pc' = "returned"
    /\ UNCHANGED latestVars

\* every variable of the geocode stage and of its helper functions, at rest
StageIdle ==
    /\ facility = [fld \in AddressFields |-> Missing]
    /\ address = NoAddress
    /\ inputFile = <<>>
    /\ cacheFile = EmptyCache
    /\ cacheFile0 = EmptyCache
    /\ outputFile = NotWritten
    /\ facilities = <<>>
    /\ cache = EmptyCache
    /\ updated = FALSE
    /\ i = 1
    /\ log = <<>>
    /\ run = 1
    /\ prev = [output |-> NotWritten, cacheFile |-> EmptyCache, completed |-> FALSE]
    /\ cacheStatus = "missing"
    /\ inputMeta = NoMeta
    /\ metadata = NoMeta
    /\ provider = "nominatim"
    /\ dataDir = <<>>
    /\ latest = NoLatest
    /\ other = NoOther

stageVars ==
    <<inputFile, cacheStatus, metadata, cacheFile, cacheFile0, outputFile,
      facilities, cache, updated, i, log, run, prev, facility, address,
      provider, inputMeta, dataDir, latest, other>>

\* the --url argument: absent, or a URL
CallerUrls == {JsonNull} \cup {JsonStr(u) : u \in Strings \ {<<>>}}

\* what find_detention_stats_link returns: None, or the URL of a link
FoundUrls == {JsonNull} \cup {JsonStr(u) : u \in Strings \ {<<>>}}

\* scraper lines 207-220: the URL the function goes on to download
ChosenUrl(url, auto_find_link, found_url) ==
    IF auto_find_link
    THEN IF Truthy(found_url) THEN found_url
         ELSE IF url = JsonNull THEN DefaultUrl ELSE url
    ELSE IF url = JsonNull THEN DefaultUrl ELSE url

DownloadIceDetentionStats ==
    /\ pc = "download"
    /\ download' = [download EXCEPT
                       !.used = ChosenUrl(download.url, download.auto_find_link,
                                          download.found_url),
                       !.done = TRUE]
    /\ pc' = "downloaded"
    /\ UNCHANGED <<stageVars, marker>>

\* str(n) of an integer
Digit == <<"0", "1", "2", "3", "4", "5", "6", "7", "8", "9">>

RECURSIVE NatStr(_)
NatStr(n) ==
    IF n < 10 THEN <<Digit[n + 1]>>
    ELSE NatStr(n \div 10) \o <<Digit[(n % 10) + 1]>>

NumStr(n) == IF n < 0 THEN <<"-">> \o NatStr(-n) ELSE NatStr(n)

NullText == <<"n", "u", "l", "l">>

\* renderer lines 44-50, on the value fac.get(key): a value that is false
\* (None, "", 0) gives null, a string is quoted, a number is str(value)
get_js(v) ==
    IF v.t \in {"missing", "absent", "null"} THEN NullText
    ELSE IF v.t = "str"
         THEN IF v.s = <<>> THEN NullText ELSE <<"\"">> \o v.s \o <<"\"">>
         ELSE IF v.v = 0 THEN NullText ELSE NumStr(v.v)

\* the values a record can have for latitude and longitude
CoordValues == {Absent, Null} \cup {Num(n) : n \in (0 - MaxCoord)..MaxCoord}

\* renderer lines 184-214: the arguments of new Facility(...) that the
\* marker is made from
FacilityToJs ==
    /\ pc = "render"
    /\ marker' = [marker EXCEPT
                     !.js = [name |-> get_js(marker.fac.Name),
                             lat |-> get_js(marker.fac.latitude),
                             lon |-> get_js(marker.fac.longitude)],
                     !.done = TRUE]
    /\ pc' = "rendered"
    /\ UNCHANGED <<stageVars, download>>

----------------------------------------------------------------------------
(* Specifications *)

Next ==
    \/ Load
    \/ SkipNoAddress
    \/ CacheHit
    \/ GeocodeSuccess
    \/ GeocodeNoResult
    \/ GeocodeError
    \/ WriteOutput
    \/ SaveCache

\* one run of the stage
Spec == Init /\ [][Next]_vars

\* main() is sequential: a run that can take a step takes it
FairSpec == Spec /\ WF_vars(Next)

NextAnyCache == Next \/ CacheHitRaises

\* one run of the stage from any parseable cache file
SpecAnyCache == InitAnyCache /\ [][NextAnyCache]_vars

\* the stage with either provider, and a server that may never answer
InitProviders ==
    /\ InputDocument
    /\ CachePath(CleanValues)
    /\ provider \in Providers
    /\ Idle

NextProviders == Next \/ GeocodeTimesOut \/ GeocodeBlocks

SpecProviders == InitProviders /\ [][NextProviders]_vars

\* the stage started on a cache path that may hold an unparseable file
InitFiles ==
    /\ InputDocument
    /\ \/ CachePath(CleanValues)
       \/ cacheStatus = "corrupt" /\ cacheFile = EmptyCache
    /\ provider = "nominatim"
    /\ Idle

NextFiles == Next \/ LoadCorruptCache

SpecFiles == InitFiles /\ [][NextFiles]_vars

\* one run of the stage with an output path that may not be writable
NextOutput == Next \/ WriteOutputFails

SpecOutput == Init /\ [][NextOutput]_vars

NextFailing ==
    \/ Load
    \/ SkipNoAddress
    \/ CacheHit
    \/ GeocodeNoResult
    \/ GeocodeError
    \/ WriteOutput
    \/ SaveCache
    \/ RunAgain

\* repeated runs of the stage with a provider that always fails
SpecFailing == Init /\ [][NextFailing]_vars

\* two stand-alone calls of build_address on records with the same fields
\* up to surrounding white space
InitSameKey ==
    /\ facility \in PairFacilities
    /\ address = NoAddress
    /\ pc = "build_address"
    /\ inputFile = <<>>
    /\ cacheFile = EmptyCache
    /\ cacheFile0 = EmptyCache
    /\ outputFile = NotWritten
    /\ facilities = <<>>
    /\ cache = EmptyCache
    /\ updated = FALSE
    /\ i = 1
    /\ log = <<>>
    /\ run = 1
    /\ prev = [output |-> NotWritten, cacheFile |-> EmptyCache, completed |-> FALSE]
    /\ cacheStatus = "missing"
    /\ inputMeta = NoMeta
    /\ metadata = NoMeta
    /\ provider = "nominatim"
    /\ dataDir = <<>>
    /\ latest = NoLatest
    /\ other = NoOther
    /\ download = NoDownload
    /\ marker = NoMarker

NextSameKey == BuildAddress \/ BuildAddressOther

SpecSameKey == InitSameKey /\ [][NextSameKey]_vars

\* a stand-alone call of get_latest_file on any directory
InitLatest ==
    /\ \E n \in 0..MaxFiles : dataDir \in [1..n -> Files]
    /\ DistinctNames(dataDir)
    /\ latest = NoLatest
    /\ pc = "get_latest_file"
    /\ facility = [fld \in AddressFields |-> Missing]
    /\ address = NoAddress
    /\ inputFile = <<>>
    /\ cacheFile = EmptyCache
    /\ cacheFile0 = EmptyCache
    /\ outputFile = NotWritten
    /\ facilities = <<>>
    /\ cache = EmptyCache
    /\ updated = FALSE
    /\ i = 1
    /\ log = <<>>
    /\ run = 1
    /\ prev = [output |-> NotWritten, cacheFile |-> EmptyCache, completed |-> FALSE]
    /\ cacheStatus = "missing"
    /\ inputMeta = NoMeta
    /\ metadata = NoMeta
    /\ provider = "nominatim"
    /\ other = NoOther
    /\ download = NoDownload
    /\ marker = NoMarker

NextLatest == GetLatestFile \/ GetLatestFileRaises

SpecLatest == InitLatest /\ [][NextLatest]_vars

\* a stand-alone call of download_ice_detention_stats: the flags of main and
\* what the web page yields
InitDownload ==
    /\ \E u \in CallerUrls, a \in BOOLEAN, f \in FoundUrls :
          download = [url |-> u, auto_find_link |-> a,
                      found_url |-> IF a THEN f ELSE JsonNull,
                      used |-> JsonNull, done |-> FALSE]
    /\ marker = NoMarker
    /\ pc = "download"
    /\ StageIdle

NextDownload == DownloadIceDetentionStats

SpecDownload == InitDownload /\ [][NextDownload]_vars

\* a stand-alone call of facility_to_js on any record
InitRender ==
    /\ \E n \in FieldValues, la \in CoordValues, lo \in CoordValues :
          marker = [fac |-> [Name |-> n, latitude |-> la, longitude |-> lo],
                    js |-> NoJs, done |-> FALSE]
    /\ download = NoDownload
    /\ pc = "render"
    /\ StageIdle

NextRender == FacilityToJs

SpecRender == InitRender /\ [][NextRender]_vars

NextAddress == BuildAddress

\* build_address as a function of the record
SpecAddress == InitAddress /\ [][NextAddress]_vars

----------------------------------------------------------------------------
(* Vocabulary of the properties *)

\* address key of the k-th record of the input
KeyOf(k) == build_address(inputFile[k])

Calls == {j \in 1..Len(log) : log[j].op = "call"}

OkCalls == {j \in Calls : log[j].res = "ok"}

FailedCalls == {j \in Calls : log[j].res \in {"none", "error"}}

ErrorCalls == {j \in Calls : log[j].res = "error"}

\* a well-formed {lat, lon} pair
WellFormed(v) == v.t = "obj"

\* records the loop has already handled
Handled == 1..(i - 1)

----------------------------------------------------------------------------
(* C1: cache-hit short-circuit *)

\* C1 as stated: the provider is never invoked for a record whose address key
\* is a key of the cache file the run started from.
C1_AnyCachedKey ==
    \A j \in Calls : KeyOf(log[j].idx) \notin DOMAIN cacheFile0

\* C1 amended: the provider is never invoked for a record whose address key
\* maps to a non-null value in the cache file the run started from.
C1_NonNullCachedKey ==
    \A j \in Calls :
        ~(/\ KeyOf(log[j].idx) \in DOMAIN cacheFile0
          /\ cacheFile0[KeyOf(log[j].idx)] # NoneResult)

\* a completed run that handled a record whose key was cached with a pair,
\* and one that needed the provider
C1_Witness ==
    /\ pc = "done"
    /\ Calls # {}
    /\ \E k \in 1..Len(inputFile) :
          /\ KeyOf(k) \in DOMAIN cacheFile0
          /\ WellFormed(cacheFile0[KeyOf(k)])

----------------------------------------------------------------------------
(* C2: no negative caching *)

\* C2 as stated: after a completed run every key of the cache file maps to a
\* well-formed coordinate pair.
C2_AllWellFormed ==
    pc = "done" => \A K \in DOMAIN cacheFile : WellFormed(cacheFile[K])

\* C2 amended: after a completed run, a key of the cache file that does not
\* map to a well-formed pair was in the file with that same value when the run
\* started; what the run adds or replaces is a well-formed pair.
C2_NoNewMalformed ==
    pc = "done" =>
        \A K \in DOMAIN cacheFile :
            ~WellFormed(cacheFile[K]) =>
                K \in DOMAIN cacheFile0 /\ cacheFile0[K] = cacheFile[K]

\* a completed run that rewrote the cache file after a failed and a
\* successful lookup
C2_Witness ==
    /\ pc = "done"
    /\ cacheFile # cacheFile0
    /\ FailedCalls # {}
    /\ OkCalls # {}

----------------------------------------------------------------------------
(* C3: a provider failure does not abort the run *)

\* the run wrote its output, every record was handled, and the records whose
\* provider call raised have null coordinates
CompletedAfterError ==
    /\ outputFile.written
    /\ Len(outputFile.facilities) = Len(inputFile)
    /\ \A k \in 1..Len(outputFile.facilities) :
          outputFile.facilities[k].latitude # Absent
    /\ \A j \in ErrorCalls :
          /\ outputFile.facilities[log[j].idx].latitude = Null
          /\ outputFile.facilities[log[j].idx].longitude = Null

\* C3: once the provider call of a record has raised, that record has null
\* latitude and longitude, the run is not aborted and can take its next step
\* until it is done, and after the loop every record has been handled and the
\* output file is written.
C3_FailureDoesNotAbort ==
    ErrorCalls # {} =>
        /\ pc \in {"loop", "save_cache", "done"}
        /\ \A j \in ErrorCalls :
              /\ facilities[log[j].idx].latitude = Null
              /\ facilities[log[j].idx].longitude = Null
        /\ pc # "done" => ENABLED Next
        /\ pc \in {"save_cache", "done"} => CompletedAfterError

\* the provider raised on a record that is not the last one, and the run is
\* done with its output written
C3_Witness ==
    /\ pc = "done"
    /\ outputFile.written
    /\ \E j \in ErrorCalls : log[j].idx < Len(inputFile)

----------------------------------------------------------------------------
(* C4: order preservation *)

\* C4: the written facilities list has the length and the record order of the
\* input list, and every record has a latitude and a longitude field.
C4_OrderPreserved ==
    outputFile.written =>
        /\ Len(outputFile.facilities) = Len(inputFile)
        /\ \A k \in 1..Len(inputFile) :
              /\ outputFile.facilities[k].facility = inputFile[k]
              /\ outputFile.facilities[k].latitude.t \in {"null", "num"}
              /\ outputFile.facilities[k].longitude.t \in {"null", "num"}

\* an output of two different records, one with and one without coordinates
C4_Witness ==
    /\ outputFile.written
    /\ Len(inputFile) >= 2
    /\ inputFile[1] # inputFile[2]
    /\ \E k \in 1..Len(inputFile) : outputFile.facilities[k].latitude = Null
    /\ \E k \in 1..Len(inputFile) : outputFile.facilities[k].latitude.t = "num"

----------------------------------------------------------------------------
(* C5: address key construction *)

\* what a field contributes according to C5: its trimmed text, and nothing
\* when it is missing, null, empty or blank
Contribution(v) == IF v.t = "str" THEN Strip(v.s) ELSE <<>>

NonEmpty(s) == s # <<>>

ClaimedKey(f) ==
    Join(<<",", " ">>,
         SelectSeq(<< Contribution(f["Address"]), Contribution(f["City"]),
                      Contribution(f["State"]), Contribution(f["Zip"]) >>,
                   NonEmpty))

\* C5: build_address returns the trimmed values of Address, City, State, Zip in
\* that order joined by ", ", where a missing, null, empty or blank field
\* contributes nothing.
C5_KeyAsClaimed ==
    address.computed => address.val = ClaimedKey(facility)

----------------------------------------------------------------------------
(* C6: records without address *)

AllEmpty(f) == \A fld \in AddressFields : Contribution(f[fld]) = <<>>

\* C6: a handled record whose address fields are all blank, null or missing
\* has null latitude and longitude and caused no provider call and no delay.
C6_EmptyAddressSkipped ==
    \A k \in Handled :
        AllEmpty(inputFile[k]) =>
            /\ facilities[k].latitude = Null
            /\ facilities[k].longitude = Null
            /\ \A j \in 1..Len(log) : log[j].idx # k

----------------------------------------------------------------------------
(* C7: delay between provider calls *)

\* C7: between any two provider calls of a run there is a delay, however the
\* first of them ended.
C7_DelayBetweenCalls ==
    \A j \in Calls : \A k \in Calls :
        j < k => \E m \in (j + 1)..(k - 1) : log[m].op = "sleep"

----------------------------------------------------------------------------
(* C8: removal of a stale entry is persisted *)

\* keys of the starting cache file whose lookup failed in this run and was
\* never successful in it
FailedStaleKeys ==
    ({KeyOf(log[j].idx) : j \in FailedCalls} \cap DOMAIN cacheFile0)
        \ {KeyOf(log[j].idx) : j \in OkCalls}

\* C8: after a completed run, a key of the starting cache file for which the
\* provider was consulted and failed is no longer in the cache file.
C8_RemovalPersisted ==
    pc = "done" => FailedStaleKeys \cap DOMAIN cacheFile = {}

----------------------------------------------------------------------------
(* C9: the cache file is rewritten only after a successful lookup *)

CacheWritten == \E j \in 1..Len(log) : log[j].op = "write_cache"

\* C9: the cache file is written, or differs from the file the run started
\* from, only if a provider call of the run returned coordinates.
C9_RewrittenOnlyOnSuccess ==
    (CacheWritten \/ cacheFile # cacheFile0) => OkCalls # {}

\* a completed run whose only lookups failed and removed an entry in memory
C9_Witness ==
    /\ pc = "done"
    /\ FailedCalls # {}
    /\ OkCalls = {}
    /\ cache # cacheFile0
    /\ cacheFile = cacheFile0

----------------------------------------------------------------------------
(* C10: idempotence under a failing provider *)

\* C10: with a provider that always fails, a completed run that follows a
\* completed run on the same input writes the same output, and leaves the
\* cache file as the earlier run left it.
C10_Idempotent ==
    (pc = "done" /\ prev.completed) =>
        /\ outputFile = prev.output
        /\ cacheFile = prev.cacheFile

\* a second completed run from a populated cache file, with a cache hit and
\* a failed lookup of a null entry, which the run removed in memory
C10_Witness ==
    /\ pc = "done"
    /\ prev.completed
    /\ \E K \in DOMAIN cacheFile0 : WellFormed(cacheFile0[K])
    /\ \E k \in 1..Len(inputFile) : outputFile.facilities[k].latitude.t = "num"
    /\ FailedCalls # {}
    /\ cache # cacheFile0

----------------------------------------------------------------------------
(* C11: one lookup for a shared address *)

\* log entries of the provider calls made for address key K
CallsFor(K) == {j \in Calls : KeyOf(log[j].idx) = K}

\* non-empty keys that two records of the input share and that the cache
\* file did not have when the run started
SharedNewKeys ==
    {KeyOf(k) : k \in {m \in 1..Len(inputFile) :
                         \E n \in 1..Len(inputFile) :
                             n # m /\ KeyOf(n) = KeyOf(m)}}
        \ ({<<>>} \cup DOMAIN cacheFile0)

\* C11 as stated: after a completed run the provider has been invoked exactly
\* once for every such key.
C11_ExactlyOnce ==
    pc = "done" => \A K \in SharedNewKeys : Cardinality(CallsFor(K)) = 1

\* the provider returned coordinates for key K at a record before record k
ResolvedBefore(K, k) ==
    \E j \in OkCalls : KeyOf(log[j].idx) = K /\ log[j].idx < k

\* C11 amended: for such a key the provider is invoked for each record that
\* carries it until a call returns coordinates, and for no record after that
\* one; so exactly once when the first call returns coordinates.
C11_OncePerRecordUntilResolved ==
    \A k \in Handled :
        KeyOf(k) \in SharedNewKeys =>
            ((\E j \in Calls : log[j].idx = k) <=> ~ResolvedBefore(KeyOf(k), k))

\* a completed run with a shared key whose first lookup failed and whose
\* second one returned coordinates
C11_Witness ==
    /\ pc = "done"
    /\ \E K \in SharedNewKeys :
          /\ Cardinality(CallsFor(K)) = 2
          /\ \E j \in CallsFor(K) : log[j].res = "ok"

----------------------------------------------------------------------------
(* C12: same coordinates for a shared address *)

SameKey(k, m) == KeyOf(k) # <<>> /\ KeyOf(k) = KeyOf(m)

\* C12 as stated: in the written output any two records with the same
\* non-empty address key have the same latitude and the same longitude.
C12_SameCoordinates ==
    outputFile.written =>
        \A k \in 1..Len(inputFile) : \A m \in 1..Len(inputFile) :
            SameKey(k, m) =>
                /\ outputFile.facilities[k].latitude =
                       outputFile.facilities[m].latitude
                /\ outputFile.facilities[k].longitude =
                       outputFile.facilities[m].longitude

\* C12 amended: in the written output, a record that has coordinates shares
\* them with every later record of the same non-empty address key; records
\* before it may have null coordinates because their own lookup failed.
C12_SameCoordinatesOnceResolved ==
    outputFile.written =>
        \A k \in 1..Len(inputFile) : \A m \in 1..Len(inputFile) :
            (k < m /\ SameKey(k, m)
                   /\ outputFile.facilities[k].latitude.t = "num") =>
                /\ outputFile.facilities[k].latitude =
                       outputFile.facilities[m].latitude
                /\ outputFile.facilities[k].longitude =
                       outputFile.facilities[m].longitude

\* an output where two differently spelled records of one address got the
\* coordinates the provider returned for the first of them
C12_Witness ==
    /\ outputFile.written
    /\ OkCalls # {}
    /\ \E k \in 1..Len(inputFile) : \E m \in 1..Len(inputFile) :
          /\ k < m
          /\ SameKey(k, m)
          /\ inputFile[k] # inputFile[m]
          /\ outputFile.facilities[m].latitude.t = "num"

----------------------------------------------------------------------------
(* C13: no provider call blocks *)

\* C13: with either provider a call that gets no answer ends after a fixed
\* timeout, so the run is never left waiting in a provider call.
C13_NoCallBlocks == pc # "blocked"

----------------------------------------------------------------------------
(* C14: a corrupt cache file is fatal *)

\* C14: while the cache path holds an unparseable file the run is either not
\* yet started or aborted: it never enters the loop with some cache, calls no
\* provider, and writes neither the output file nor the cache file.
C14_CorruptCacheIsFatal ==
    cacheStatus = "corrupt" =>
        /\ pc \in {"start", "aborted"}
        /\ pc = "start" => ENABLED NextFiles
        /\ Calls = {}
        /\ ~outputFile.written
        /\ ~CacheWritten
        /\ cacheFile = cacheFile0

\* a run over a non-empty facility list that aborted on a corrupt cache file
C14_Witness ==
    /\ cacheStatus = "corrupt"
    /\ pc = "aborted"
    /\ \E k \in 1..Len(inputFile) : KeyOf(k) # <<>>

----------------------------------------------------------------------------
(* C15: a missing cache file is not an error *)

MissingAtStart ==
    \E j \in 1..Len(log) : log[j].op = "load_cache" /\ log[j].res = "missing"

\* C15: a run that found no file at the cache path is never aborted and can
\* go on until it is done and has written its output; its cache holds only
\* the keys it resolved itself, and it calls the provider for exactly the
\* handled records with a non-empty key that no earlier call resolved.
C15_MissingCacheIsEmpty ==
    MissingAtStart =>
        /\ pc \in {"loop", "save_cache", "done"}
        /\ pc # "done" => ENABLED Next
        /\ pc \in {"save_cache", "done"} => outputFile.written
        /\ DOMAIN cache = {KeyOf(log[j].idx) : j \in OkCalls}
        /\ \A k \in Handled :
              KeyOf(k) # <<>> =>
                  ((\E j \in Calls : log[j].idx = k)
                      <=> ~ResolvedBefore(KeyOf(k), k))

\* a completed run without cache file that called the provider and then
\* served a record from what it had resolved
C15_Witness ==
    /\ MissingAtStart
    /\ pc = "done"
    /\ \E k \in 1..Len(inputFile) : ResolvedBefore(KeyOf(k), k)

----------------------------------------------------------------------------
(* C16: frame of enrichment *)

\* C16: the written output document has the metadata object of the input
\* document and as many records as the input; each record carries every
\* input field of the record at its position unchanged, and the document
\* held in memory has the same frame at every step of the loop.
C16_Frame ==
    /\ outputFile.written =>
          /\ outputFile.metadata = inputMeta
          /\ Len(outputFile.facilities) = Len(inputFile)
          /\ \A k \in 1..Len(inputFile) :
                outputFile.facilities[k].facility = inputFile[k]
    /\ pc \in {"loop", "save_cache", "done"} =>
          /\ metadata = inputMeta
          /\ Len(facilities) = Len(inputFile)
          /\ \A k \in 1..Len(inputFile) : facilities[k].facility = inputFile[k]

\* an output with a metadata object, a record that got coordinates and a
\* record that got nulls
C16_Witness ==
    /\ outputFile.written
    /\ inputMeta.present
    /\ outputFile.metadata.present
    /\ \E k \in 1..Len(inputFile) : outputFile.facilities[k].longitude.t = "num"
    /\ \E k \in 1..Len(inputFile) : outputFile.facilities[k].longitude = Null

----------------------------------------------------------------------------
(* C17: the key depends only on the trimmed address fields *)

Trimmed(v) == IF v.t = "str" THEN JsonStr(Strip(v.s)) ELSE v

SameTrimmed(f, g) == \A fld \in AddressFields : Trimmed(f[fld]) = Trimmed(g[fld])

\* C17: two records whose Address, City, State and Zip are identical after
\* trimming get the same key from build_address, whatever other fields
\* either of them has.
C17_SameKey ==
    (other.computed /\ SameTrimmed(facility, other.facility)) =>
        other.val = address.val

\* two records with a non-empty key that differ in the white space of an
\* address field and in their other fields
C17_Witness ==
    /\ other.computed
    /\ SameTrimmed(facility, other.facility)
    /\ \E fld \in AddressFields : facility[fld] # other.facility[fld]
    /\ DOMAIN other.facility # DOMAIN facility
    /\ address.val # <<>>

----------------------------------------------------------------------------
(* C18, C19: get_latest_file *)

Matching == {dataDir[k] : k \in {n \in 1..Len(dataDir) : dataDir[n].matches}}

\* C18: the file get_latest_file returns is the most recent of the matching
\* files, the one with the latest date in its name, wherever it stands in the
\* directory listing and whenever it was created.
C18_MostRecent ==
    latest.status = "returned" => \A f \in Matching : f.date <= latest.path.date

\* C19: a finished call of get_latest_file has raised exactly when no file of
\* the directory matches the pattern, and otherwise has returned one of the
\* matching files of the directory.
C19_RaisesIffNoMatch ==
    pc \in {"returned", "raised"} =>
        /\ latest.status = "raised" <=> Matching = {}
        /\ latest.status # "raised" =>
              /\ latest.status = "returned"
              /\ latest.path \in Matching

\* a call that raised in a directory that holds files, none of them matching
C19_Witness ==
    /\ pc = "raised"
    /\ latest.status = "raised"
    /\ Len(dataDir) >= 2

----------------------------------------------------------------------------
(* C20: the only fatal failures *)

\* C20: a run on a parseable input file and a parseable or missing cache
\* file, with writable paths, is never aborted: whatever the cache holds and
\* the provider answers it can go on until it is done, and it is done only
\* with the output file written.
C20_OnlyThreeFatal ==
    cacheStatus # "corrupt" =>
        /\ pc # "aborted"
        /\ pc # "done" => ENABLED NextAnyCache
        /\ pc = "done" => outputFile.written

----------------------------------------------------------------------------
(* C21: a provider call that raises *)

\* the cache's entry for a key: its value, or absent
EntryOf(c, k) ==
    IF k \in DOMAIN c THEN [present |-> TRUE, val |-> c[k]]
    ELSE [present |-> FALSE, val |-> NoneResult]

\* the step in which the provider call for the current record raises
ErrorStep ==
    /\ pc = "loop"
    /\ Len(log') = Len(log) + 1
    /\ log'[Len(log')] = Event("call", i, "error")

NullAndNext ==
    /\ pc' = "loop"
    /\ i' = i + 1
    /\ facilities'[i].latitude = Null
    /\ facilities'[i].longitude = Null

\* C21: a provider call that raises gives the record null coordinates, lets
\* the run go on with the next record, and leaves the cache's entry for the
\* record's key, a value or absent, as it was before the call.
C21_EntryUnchanged ==
    [][ErrorStep =>
          /\ NullAndNext
          /\ EntryOf(cache', Current) = EntryOf(cache, Current)]_vars

\* C21 as amended: a provider call that raises gives the record null
\* coordinates and lets the run go on with the next record; the key's entry
\* was absent or null before the call and is absent after it, every other
\* entry and the dirty flag are as before.
C21_NullEntryRemoved ==
    [][ErrorStep =>
          /\ NullAndNext
          /\ EntryOf(cache, Current) \in
                 {EntryOf(EmptyCache, Current), [present |-> TRUE, val |-> NoneResult]}
          /\ ~EntryOf(cache', Current).present
          /\ \A k \in (DOMAIN cache \cup DOMAIN cache') \ {Current} :
                EntryOf(cache', k) = EntryOf(cache, k)
          /\ updated' = updated]_vars

\* a call raised for a key that the cache file maps to null, and the
\* in-memory cache has lost the key
C21_Witness ==
    \E j \in ErrorCalls :
        /\ KeyOf(log[j].idx) \in DOMAIN cacheFile0
        /\ KeyOf(log[j].idx) \notin DOMAIN cache
        /\ facilities[log[j].idx].latitude = Null
        /\ i > log[j].idx

----------------------------------------------------------------------------
(* C22: successful lookups are stored and persisted *)

\* C22: from the provider call of a record that returned coordinates on, the
\* in-memory cache maps the record's key to a coordinate pair, the record
\* has that pair's lat and lon as latitude and longitude, and once the run
\* is done the cache file maps the key to the same pair.
C22_StoredAndPersisted ==
    \A j \in OkCalls :
        LET k == log[j].idx
            K == KeyOf(k)
        IN  /\ K \in DOMAIN cache
            /\ cache[K] \in Coordinates
            /\ facilities[k].latitude = Num(cache[K].lat)
            /\ facilities[k].longitude = Num(cache[K].lon)
            /\ pc = "done" =>
                  /\ K \in DOMAIN cacheFile
                  /\ cacheFile[K] = cache[K]
                  /\ outputFile.facilities[k] = facilities[k]

\* a completed run in which a call returned coordinates for a key that the
\* cache file mapped to null, followed by a later record
C22_Witness ==
    /\ pc = "done"
    /\ \E j \in OkCalls :
          /\ KeyOf(log[j].idx) \in DOMAIN cacheFile0
          /\ log[j].idx < Len(inputFile)
          /\ cacheFile[KeyOf(log[j].idx)] # cacheFile0[KeyOf(log[j].idx)]

----------------------------------------------------------------------------
(* C23: the delay is incurred only for provider calls *)

Delays == {j \in 1..Len(log) : log[j].op = "sleep"}

\* handled records served from the cache
Hits == {k \in Handled : KeyOf(k) # <<>> /\ \A j \in Calls : log[j].idx # k}

\* C23: a run has at most as many delays as provider calls, and no delay
\* occurs while it handles a record that is a cache hit or a record whose
\* address fields are all blank, null or missing.
C23_DelayOnlyForCalls ==
    /\ Cardinality(Delays) <= Cardinality(Calls)
    /\ \A k \in Handled :
          (k \in Hits \/ AllEmpty(inputFile[k])) =>
              \A j \in Delays : log[j].idx # k

----------------------------------------------------------------------------
(* C24: persistence happens once, at the end *)

EventsOf(op) == {j \in 1..Len(log) : log[j].op = op}

Writes == EventsOf("write_output") \cup EventsOf("write_cache")

\* C24: a started run has loaded the cache exactly once, before anything it
\* does for a record; while it is in the loop, or aborted in it, no file has
\* been written; the cache file is written at most once, after the output
\* file and after every provider call, when no record is left.
C24_PersistOnceAtEnd ==
    /\ pc # "start" =>
          /\ Cardinality(EventsOf("load_cache")) = 1
          /\ \A j \in EventsOf("load_cache") : \A m \in Calls \cup Delays : j < m
    /\ pc \in {"loop", "aborted"} =>
          /\ Writes = {}
          /\ ~outputFile.written
          /\ cacheFile = cacheFile0
    /\ Cardinality(EventsOf("write_cache")) <= 1
    /\ \A j \in EventsOf("write_cache") :
          /\ i > Len(facilities)
          /\ j = Len(log)
          /\ \E m \in EventsOf("write_output") : m < j

\* a run that aborted in the loop after a provider call had returned
\* coordinates
C24_Witness ==
    /\ pc = "aborted"
    /\ OkCalls # {}
    /\ cache # cacheFile0

----------------------------------------------------------------------------
(* C25: the URL that is downloaded *)

\* C25: download_ice_detention_stats uses the caller's url whenever one is
\* given; the link found on the web page and the built-in default URL are
\* used only when the url is None.
C25_CallerUrlWins ==
    download.done =>
        /\ download.url # JsonNull => download.used = download.url
        /\ download.url = JsonNull =>
              download.used \in {download.found_url, DefaultUrl}

----------------------------------------------------------------------------
(* C26: good cache entries are never evicted *)

\* keys that the cache file maps to a coordinate pair when the run starts
GoodKeys == {K \in DOMAIN cacheFile0 : cacheFile0[K] \in Coordinates}

\* C26: for a key that the cache file maps to a coordinate pair at the start
\* of the run, the provider is never called, the in-memory cache maps it to
\* the same pair from the load on, and the cache file maps it to the same
\* pair throughout, before and after it is rewritten.
C26_GoodEntriesKept ==
    \A K \in GoodKeys :
        /\ CallsFor(K) = {}
        /\ pc # "start" => K \in DOMAIN cache /\ cache[K] = cacheFile0[K]
        /\ K \in DOMAIN cacheFile /\ cacheFile[K] = cacheFile0[K]

\* a completed run that used a good entry for a record, called the provider
\* for another key and rewrote the cache file
C26_Witness ==
    /\ pc = "done"
    /\ CacheWritten
    /\ \E k \in 1..Len(inputFile) : KeyOf(k) \in GoodKeys
    /\ cacheFile # cacheFile0

----------------------------------------------------------------------------
(* C27: coordinates come in pairs *)

----------------------------------------------------------------------------
(* C28: the output is written before the cache *)

OutputFailed ==
    \E j \in EventsOf("write_output") : log[j].res = "error"

\* C28: the cache file is written only after the output file has been
\* written; a run whose write of the output file failed is aborted, has not
\* written the cache file, which is as the run found it, and no key for
\* which the provider returned coordinates in the run maps to coordinates
\* in the cache file.
C28_OutputBeforeCache ==
    /\ \A j \in EventsOf("write_cache") :
          \E m \in EventsOf("write_output") : m < j /\ log[m].res = "ok"
    /\ OutputFailed =>
          /\ pc = "aborted"
          /\ EventsOf("write_cache") = {}
          /\ cacheFile = cacheFile0
          /\ ~outputFile.written
          /\ \A j \in OkCalls :
                \/ KeyOf(log[j].idx) \notin DOMAIN cacheFile
                \/ cacheFile[KeyOf(log[j].idx)] = NoneResult

\* a run that obtained coordinates from the provider and then failed to
\* write the output file
C28_Witness ==
    /\ OutputFailed
    /\ pc = "aborted"
    /\ OkCalls # {}
    /\ updated

----------------------------------------------------------------------------
(* C29: no retry within a run *)

\* C29: the provider is called at most once for each record, the calls are
\* made in the order of the records, and a run makes at most as many calls
\* as the input has records whose address fields are not all blank, null or
\* missing.
C29_NoRetry ==
    /\ \A j, m \in Calls : j < m => log[j].idx < log[m].idx
    /\ Cardinality(Calls) <=
           Cardinality({k \in 1..Len(inputFile) : ~AllEmpty(inputFile[k])})

----------------------------------------------------------------------------
(* C30: the renderer keeps every geocoded facility *)

IsNullOrMissing(v) == v.t \in {"missing", "absent", "null"}

\* C30: for a record whose latitude and longitude are both numbers,
\* facility_to_js emits the two numbers as the lat and lon arguments; it
\* emits null for a field only when the field is null or missing in the
\* record.
C30_MarkerKept ==
    marker.done =>
        /\ (marker.fac.latitude.t = "num" /\ marker.fac.longitude.t = "num") =>
              /\ marker.js.lat = NumStr(marker.fac.latitude.v)
              /\ marker.js.lon = NumStr(marker.fac.longitude.v)
        /\ marker.js.name = NullText => IsNullOrMissing(marker.fac.Name)
        /\ marker.js.lat = NullText => IsNullOrMissing(marker.fac.latitude)
        /\ marker.js.lon = NullText => IsNullOrMissing(marker.fac.longitude)

====
